---------------------------- MODULE Spec2Model ----------------------------
(***************************************************************************)
(* A model of the Lotsawa House EPUB scraper (src/scrap.py): link          *)
(* collection, the run coordinator, the per-document download              *)
(* orchestrator, the completion poller and the placement of files.         *)
(*                                                                         *)
(* Text is modelled as sequences of characters; a character is a short     *)
(* string naming it.  A file name is a record [base, sfx, ext]: the stem   *)
(* is `base` followed by one " (n)" per element of `sfx`.  A path is a     *)
(* record [dir, name]; dir = <<>> is the top level of the output           *)
(* directory, which is also the browser's download directory.              *)
(***************************************************************************)
EXTENDS Integers, Sequences, FiniteSets, TLC

\* ------------------------------------------------------------------ bounds
\* Times something other than the scraper and the browser touches a file of
\* the sink (removes it, or writes to it) during one run.
MaxDisturbances == 1
\* Samples of the completion poller before it gives up (the code: 120 s of
\* 0.5 s sleeps).
TimeoutTicks == 2
\* DOM items (section summaries and anchors) of a landing page drawn for the
\* link collector.
MaxItems == 5
\* Characters of a topic label drawn for the sanitizer.
MaxLabel == 2

\* How many calls are made on a scraper from outside.
MaxCalls == 4

\* Entries of the text of a JSON record drawn for json_to_folder.
MaxVerses == 2

\* The largest n of a " (n)" in the names of the files drawn for _unique_path.
MaxSuffix == 2

\* -------------------------------------------------------------- characters
Letters == {"A", "B", "M", "i", "s", "c", "E", "n", "g", "l", "h", "T", "b",
            "e", "t", "a", "x"}
\* "qa" is U+0958 (a letter whose canonical form is "ka" followed by the
\* combining mark "nukta", U+093C); "bo" is a letter of the Tibetan block.
Chars == Letters \cup {" ", "-", "_", ".", "bo", "qa", "ka", "nukta"}

\* str.isalnum() of one character.
IsAlnum(c) == c \in Letters \cup {"qa", "ka", "bo"}

\* '\u0f00' <= c <= '\u0fff'
IsTibetan(c) == c = "bo"

\* The filter of the sanitizer's generator expression.
Keep(c) == IsAlnum(c) \/ c \in {" ", "-", "_"} \/ IsTibetan(c)

RECURSIVE LStrip(_)
LStrip(s) == IF s # <<>> /\ Head(s) = " " THEN LStrip(Tail(s)) ELSE s

RECURSIVE RStrip(_)
RStrip(s) ==
    IF s # <<>> /\ s[Len(s)] = " " THEN RStrip(SubSeq(s, 1, Len(s) - 1)) ELSE s

\* str.strip(): only the space is white space in Chars.
Strip(s) == RStrip(LStrip(s))

\* unicodedata.normalize("NFC", s): U+0958 is excluded from composition, so
\* NFC leaves it decomposed; nothing else of Chars changes.
RECURSIVE NFC(_)
NFC(s) ==
    IF s = <<>> THEN <<>>
    ELSE (IF Head(s) = "qa" THEN <<"ka", "nukta">> ELSE <<Head(s)>>)
         \o NFC(Tail(s))

Misc == <<"M", "i", "s", "c">>
English == <<"E", "n", "g", "l", "i", "s", "h">>
Tibetan == <<"T", "i", "b", "e", "t", "a", "n">>

\* The inline sanitizer of _download_epub_from_text_page (primary topic).
SafeSubfolder(subfolder) ==
    LET safe == NFC(Strip(SelectSeq(subfolder, Keep)))
    IN  IF safe = <<>> THEN Misc ELSE safe

\* The inline sanitizer of scrape_all (secondary topics).
SafeExtra(extra) ==
    LET safe == NFC(Strip(SelectSeq(extra, Keep)))
    IN  IF safe = <<>> THEN Misc ELSE safe

\* ---------------------------------------------------------- link collector
\* hrefs as the anchors carry them: "" is an anchor without href.
Hrefs == {"", "rel1", "abs1", "abs2"}

\* urljoin(self.base_url, href): "rel1" is the relative form of "abs1".
UrlJoin(href) == IF href = "rel1" THEN "abs1" ELSE href

\* A membership test that always answers no.
NeverInSeq(x, s) == FALSE

\* subheading in url_to_subs[full_url]
InSeq(x, s) == \E i \in DOMAIN s : s[i] = x

\* The inner loop of _collect_text_links over one section's anchors; `grouped`
\* holds url_to_subs in the order of `order`.
RECURSIVE CollectAnchors(_, _, _)
CollectAnchors(anchors, subheading, grouped) ==
    IF anchors = <<>> THEN grouped
    ELSE LET href == Head(anchors) IN
         IF href = "" THEN CollectAnchors(Tail(anchors), subheading, grouped)
         ELSE LET full_url == UrlJoin(href)
                  g1 == IF \E i \in DOMAIN grouped : grouped[i].url = full_url
                        THEN grouped
                        ELSE Append(grouped, [url |-> full_url, topics |-> <<>>])
                  g2 == [i \in DOMAIN g1 |->
                           IF g1[i].url = full_url /\ ~InSeq(subheading, g1[i].topics)
                           THEN [g1[i] EXCEPT !.topics = Append(@, subheading)]
                           ELSE g1[i]]
              IN  CollectAnchors(Tail(anchors), subheading, g2)

\* The outer loop over the details elements.
RECURSIVE CollectSections(_, _)
CollectSections(details, grouped) ==
    IF details = <<>> THEN grouped
    ELSE CollectSections(Tail(details),
             CollectAnchors(Head(details).anchors,
                            Strip(Head(details).summary), grouped))

CollectTextLinks(details) == CollectSections(details, <<>>)

\* ------------------------------------------------------------------- state
VARIABLES
    pc,                 \* where the program is
    driver,             \* self.driver: "chrome" is the session, "none" is None
    interrupted,        \* a KeyboardInterrupt has been raised
    quits,              \* how many times driver.quit() was called
    close_raised,       \* the exception the last close() let out, "" for none
    calls,              \* the calls made on the scraper from outside, in order
    cookie,             \* a cookie banner, the step that meets it and how that went
    json,               \* a JSON record and the files json_to_folder wrote for it
    unique,             \* a path given to _unique_path and the path returned
    stale,              \* an in-progress file lay in the sink all through the poller's call
    page,               \* the site: the landing page and what its documents show
    sections_found,     \* how the wait for the sections container ended
    grouped,            \* items: the list _collect_text_links returned
    regrouped,          \* the list a second collection returned
    label,              \* a topic label given to the sanitizer
    safe_names,         \* what the sanitizer made of it, and of that
    idx,                \* scrape_all: position of the loop over items
    success, failed,    \* scrape_all: the counters
    extra_language_dir, \* orchestrator: <<>> is None
    shown,              \* orchestrator: what step 3 found on the page
    downloaded,         \* orchestrator: what the poller returned
    original,           \* the file at that path when the poller returned it
    tib_downloaded,     \* orchestrator: what the second poller call returned
    final_path,         \* orchestrator: the value it returns
    extras,             \* scrape_all: secondary topics still to copy into
    files,              \* the files under output_dir, each with the name
                        \* the browser saved it under
    dirs,               \* the folders under output_dir
    dls,                \* downloads the browser has in flight
    recency,            \* the sink's files, least recently modified first
    before_set,         \* poller: the snapshot it was given
    elapsed,            \* poller: time.time() - start, in sleeps
    current,            \* poller: the last listing
    target,             \* poller: the candidate
    size1,              \* poller: the candidate's first size
    pollFor,            \* poller: its caller, "primary" or "tib"
    pollExit,           \* how the poller call that just ended ended
    ret,                \* what the poller call that just returned observed
    moves, copies,      \* per URL: moves and copies into topic folders
    skipped,            \* per URL: placements into topic folders not made
    outcome,            \* per URL: how the coordinator counted it
    observed,           \* URLs whose primary poller call returned a path
    triggered,          \* per URL: the downloads its clicks started, in order
    softFails,          \* best-effort steps that failed for this document
    crashedAt,          \* the step whose exception ended the run
    disturbances        \* touches of sink files from outside so far

vars == <<pc, driver, interrupted, quits, close_raised, calls, cookie, json,
          unique, stale, page, sections_found, grouped, regrouped, label,
          safe_names, idx, success, failed, extra_language_dir, shown,
          downloaded, original, tib_downloaded, final_path, extras, files,
          dirs, dls, recency, before_set, elapsed, current, target, size1,
          pollFor, pollExit, ret, moves, copies, skipped, outcome, observed,
          triggered, softFails, crashedAt, disturbances>>

Urls == {"abs1", "abs2"}

Top == <<>>
NoName == [base |-> <<>>, sfx |-> <<>>, ext |-> ""]
NoPath == [dir |-> Top, name |-> NoName]
NoId == [url |-> "", kind |-> ""]
NoShown == [looked |-> FALSE, is_tibetan_page |-> FALSE, has_bo_class |-> FALSE,
            has_en_class |-> FALSE, has_en_trans_class |-> FALSE,
            tibetan_script_present |-> FALSE]
NoFile == [path |-> NoPath, saved_as |-> NoName, content |-> NoId, size |-> 0]
NoRet == [by |-> NoId, content |-> NoId, target |-> NoName, size1 |-> 0,
          size2 |-> 0, present |-> FALSE, cur |-> {}, bef |-> {}]

\* The position of a URL in the collected list.
Position(u) == CHOOSE i \in DOMAIN grouped : grouped[i].url = u

Collected == {grouped[i].url : i \in DOMAIN grouped}

\* ------------------------------------------------------------- file system
Exists(path) == \E f \in files : f.path = path

FileAt(path) == CHOOSE f \in files : f.path = path

SinkPath(name) == [dir |-> Top, name |-> name]

\* An in-progress file lies in the top level of the sink.
TempInSink(fs) == \E f \in fs : f.path.dir = Top /\ f.path.name.ext = "crdownload"

\* set(self.output_dir.glob("*")): files and folders of the top level.
Listing ==
    {f.path.name : f \in {g \in files : g.path.dir = Top}}
    \cup {[base |-> d, sfx |-> <<>>, ext |-> ""] : d \in dirs}

\* p.suffix.lower()
Lower(ext) ==
    CASE ext = "EPUB" -> "epub"
      [] ext = "CRDOWNLOAD" -> "crdownload"
      [] OTHER -> ext

\* path.with_name(f"{stem} ({n}){ext}") for n, n + 1, ...
RECURSIVE UniqueFrom(_, _)
UniqueFrom(path, n) ==
    LET candidate == [path EXCEPT !.name.sfx = Append(@, n)]
    IN  IF ~Exists(candidate) THEN candidate ELSE UniqueFrom(path, n + 1)

\* A path taken as it is, free or not.
UniquePathAsIs(path) == path

\* A path that gets " (1)" without a look at what exists.
UniquePathSuffixed(path) == [path EXCEPT !.name.sfx = Append(@, 1)]

\* _unique_path
UniquePath(path) == IF ~Exists(path) THEN path ELSE UniqueFrom(path, 1)

\* The order of modification times without the file `name`.
Without(name) == SelectSeq(recency, LAMBDA n : n # name)

\* Path.replace: the source takes the target's place, whatever was there.
Replaced(src, dst) ==
    {f \in files : f.path # src /\ f.path # dst}
    \cup {[FileAt(src) EXCEPT !.path = dst]}

\* A copy that takes the source away.
Renamed(src, dst) == Replaced(src, dst)

\* A copy that writes nothing.
NotCopied(src, dst) == files

\* shutil.copy2: content and times copied, whatever was at the target.
Copied(src, dst) ==
    {f \in files : f.path # dst} \cup {[FileAt(src) EXCEPT !.path = dst]}

\* ------------------------------------------------------------ coordination
Url == grouped[idx].url

Subfolders == grouped[idx].topics

\* subfolders[0] and subfolders[1:]
Primary(subfolders) == Head(subfolders)

\* A slice that keeps the first topic.
ExtrasOfAll(subfolders) == subfolders

ExtrasOf(subfolders) == Tail(subfolders)

\* _expand_all_sections: driver.get may raise, and nothing catches it; whether
\* or not the container shows up within the wait, the function returns and
\* scrape_all goes on to collect.
ExpandAllSections ==
    /\ pc = "start"
    /\ \E step \in {"get_raised", "found", "timed_out"} :
          IF step = "get_raised"
          THEN /\ pc' = "crashed"
               /\ crashedAt' = "expand"
               /\ sections_found' = sections_found
          ELSE /\ pc' = "collect"
               /\ crashedAt' = crashedAt
               /\ sections_found' = IF step = "found" THEN "yes" ELSE "no"
    /\ UNCHANGED <<driver, interrupted, quits, close_raised, calls, cookie,
                   json, unique, stale, page, grouped, regrouped, label,
                   safe_names, idx, success, failed, extra_language_dir,
                   shown, downloaded, original, tib_downloaded, final_path,
                   extras, files, dirs, dls, recency, before_set, elapsed,
                   current, target, size1, pollFor, pollExit, ret, moves,
                   copies, skipped, outcome, observed, triggered, softFails,
                   disturbances>>

\* The sections the collector's own find_elements sees: those of the page,
\* or none when the page has not come up even after the wait ran out.
Details(late) == IF late THEN page.details ELSE <<>>

\* items = self._collect_text_links(); how the wait ended is not known to
\* scrape_all.
CollectLinks ==
    /\ pc = "collect"
    /\ \E late \in BOOLEAN :
          /\ sections_found = "yes" => late
          /\ grouped' = CollectTextLinks(Details(late))
    /\ sections_found' = ""
    /\ idx' = 1
    /\ pc' = "loop"
    /\ UNCHANGED <<driver, interrupted, quits, close_raised, calls, cookie,
                   json, unique, stale, page, regrouped, label, safe_names,
                   success, failed, extra_language_dir, shown, downloaded,
                   original, tib_downloaded, final_path, extras, files, dirs,
                   dls, recency, before_set, elapsed, current, target, size1,
                   pollFor, pollExit, ret, moves, copies, skipped, outcome,
                   observed, triggered, softFails, crashedAt, disturbances>>

\* The head of the loop over items: the end of the list, the skip of an item
\* without subheading (`failed += 1 ... continue`), or the call of the
\* orchestrator.
LoopNext ==
    /\ pc = "loop"
    /\ IF idx > Len(grouped)
       THEN /\ pc' = "report"
            /\ UNCHANGED <<idx, failed, outcome, extras>>
       ELSE IF Subfolders = <<>>
       THEN /\ failed' = failed + 1
            /\ outcome' = [outcome EXCEPT ![Url] = "failed"]
            /\ idx' = idx + 1
            /\ pc' = "loop"
            /\ UNCHANGED extras
       ELSE /\ pc' = "navigate"
            /\ extras' = ExtrasOf(Subfolders)
            /\ UNCHANGED <<idx, failed, outcome>>
    /\ softFails' = {}
    /\ pollExit' = ""
    /\ stale' = FALSE
    /\ ret' = NoRet
    /\ UNCHANGED <<driver, interrupted, quits, close_raised, calls, cookie,
                   json, unique, page, sections_found, grouped, regrouped,
                   label, safe_names, success, extra_language_dir, shown,
                   downloaded, original, tib_downloaded, final_path, files,
                   dirs, dls, recency, before_set, elapsed, current, target,
                   size1, pollFor, moves, copies, skipped, observed,
                   triggered, crashedAt, disturbances>>

\* The report of the totals.
Report ==
    /\ pc = "report"
    /\ pc' = "done"
    /\ UNCHANGED <<driver, interrupted, quits, close_raised, calls, cookie,
                   json, unique, stale, page, sections_found, grouped,
                   regrouped, label, safe_names, idx, success, failed,
                   extra_language_dir, shown, downloaded, original,
                   tib_downloaded, final_path, extras, files, dirs, dls,
                   recency, before_set, elapsed, current, target, size1,
                   pollFor, pollExit, ret, moves, copies, skipped, outcome,
                   observed, triggered, softFails, crashedAt, disturbances>>

\* ------------------------------------------------------------ orchestrator
\* Step 1: self.driver.get(url), outside any try.
Navigate ==
    /\ pc = "navigate"
    /\ \E loaded \in BOOLEAN :
          IF loaded THEN pc' = "negotiate" /\ crashedAt' = crashedAt
          ELSE pc' = "crashed" /\ crashedAt' = "navigate"
    /\ UNCHANGED <<driver, interrupted, quits, close_raised, calls, cookie,
                   json, unique, stale, page, sections_found, grouped,
                   regrouped, label, safe_names, idx, success, failed,
                   extra_language_dir, shown, downloaded, original,
                   tib_downloaded, final_path, extras, files, dirs, dls,
                   recency, before_set, elapsed, current, target, size1,
                   pollFor, pollExit, ret, moves, copies, skipped, outcome,
                   observed, triggered, softFails, disturbances>>

\* Step 2: the switch to English, inside try/except Exception.
Negotiate ==
    /\ pc = "negotiate"
    /\ \E raised \in BOOLEAN :
          softFails' = IF raised THEN softFails \cup {"negotiate"} ELSE softFails
    /\ pc' = "classify"
    /\ UNCHANGED <<driver, interrupted, quits, close_raised, calls, cookie,
                   json, unique, stale, page, sections_found, grouped,
                   regrouped, label, safe_names, idx, success, failed,
                   extra_language_dir, shown, downloaded, original,
                   tib_downloaded, final_path, extras, files, dirs, dls,
                   recency, before_set, elapsed, current, target, size1,
                   pollFor, pollExit, ret, moves, copies, skipped, outcome,
                   observed, triggered, crashedAt, disturbances>>

\* A rule that goes by the paragraph classes alone.
ClassifyByClasses(is_tibetan_page, has_bo_class, has_en_class, has_en_trans_class, tibetan_script_present) ==
    IF ~is_tibetan_page
    THEN IF ~has_bo_class THEN English ELSE <<>>
    ELSE IF ~has_en_class /\ ~has_en_trans_class THEN Tibetan ELSE <<>>

\* The decision rule of step 3.
Classify(is_tibetan_page, has_bo_class, has_en_class, has_en_trans_class, tibetan_script_present) ==
    IF ~is_tibetan_page
    THEN IF ~(has_bo_class \/ tibetan_script_present) THEN English ELSE <<>>
    ELSE IF ~has_en_class /\ ~has_en_trans_class THEN Tibetan ELSE <<>>

\* What the main text of a document page can show: any combination of the
\* five observations, or, for a document whose pages carry both languages,
\* only those with tagged Tibetan and tagged English paragraphs.
Shows(tib, bo, en, tr, scr) == Url \in page.bilingual => bo /\ en

\* Step 3: extra_language_dir starts as None; a lookup that raises leaves it.
ClassifyContent ==
    /\ pc = "classify"
    /\ \E raised, tib, bo, en, tr, scr \in BOOLEAN :
          /\ Shows(tib, bo, en, tr, scr)
          /\ IF raised
             THEN /\ extra_language_dir' = <<>>
                  /\ shown' = NoShown
                  /\ softFails' = softFails \cup {"classify"}
             ELSE /\ extra_language_dir' = Classify(tib, bo, en, tr, scr)
                  /\ shown' = [looked |-> TRUE, is_tibetan_page |-> tib,
                                has_bo_class |-> bo, has_en_class |-> en,
                                has_en_trans_class |-> tr,
                                tibetan_script_present |-> scr]
                  /\ softFails' = softFails
    /\ pc' = "trigger"
    /\ UNCHANGED <<driver, interrupted, quits, close_raised, calls, cookie,
                   json, unique, stale, page, sections_found, grouped,
                   regrouped, label, safe_names, idx, success, failed,
                   downloaded, original, tib_downloaded, final_path, extras,
                   files, dirs, dls, recency, before_set, elapsed, current,
                   target, size1, pollFor, pollExit, ret, moves, copies,
                   skipped, outcome, observed, triggered, crashedAt,
                   disturbances>>

\* A failure that goes on to the next item without counting it.
FailDocumentUncounted ==
    /\ failed' = failed
    /\ outcome' = [outcome EXCEPT ![Url] = "failed"]
    /\ idx' = idx + 1
    /\ pc' = "loop"
    /\ extra_language_dir' = <<>>
    /\ extras' = <<>>

\* `return False` / `return None` of the orchestrator, and in scrape_all
\* `failed += 1 ... continue`; the orchestrator's locals are gone.
FailDocument ==
    /\ failed' = failed + 1
    /\ outcome' = [outcome EXCEPT ![Url] = "failed"]
    /\ idx' = idx + 1
    /\ pc' = "loop"
    /\ extra_language_dir' = <<>>
    /\ extras' = <<>>

\* A click that went through: the browser has one more download to make, and
\* the poller starts on the snapshot taken just before the click.
StartDownload(kind) ==
    /\ before_set' = Listing
    /\ dls' = dls \cup {[id |-> [url |-> Url, kind |-> kind], stage |-> "pending"]}
    /\ triggered' = [triggered EXCEPT ![Url] = Append(@, kind)]
    /\ pollFor' = kind
    /\ elapsed' = 0
    /\ stale' = TempInSink(files)
    /\ pc' = "poll"

\* Step 4: the downloads block, the EPUB control, the snapshot, the click.
\* What step 3 found is not read again.
TriggerDownload ==
    /\ pc = "trigger"
    /\ shown' = NoShown
    /\ \E step \in {"no_downloads_block", "no_epub_button", "clicked",
                    "click_failed"} :
          IF step = "clicked"
          THEN /\ StartDownload("primary")
               /\ UNCHANGED <<idx, failed, outcome, extra_language_dir, extras>>
          ELSE /\ FailDocument
               /\ UNCHANGED <<before_set, dls, triggered, pollFor, elapsed, stale>>
    /\ UNCHANGED <<driver, interrupted, quits, close_raised, calls, cookie,
                   json, unique, page, sections_found, grouped, regrouped,
                   label, safe_names, success, downloaded, original,
                   tib_downloaded, final_path, files, dirs, recency, current,
                   target, size1, pollExit, ret, moves, copies, skipped,
                   observed, softFails, crashedAt, disturbances>>

\* --------------------------------------------------------- completion poller
\* new = list(current): a poller that forgets the snapshot.
NewEpubsOfAll(cur, bef) == {n \in cur : Lower(n.ext) = "epub"}

\* epubs: the entries of `cur` that are not in the snapshot and end in .epub
NewEpubs(cur, bef) == {n \in cur \ bef : Lower(n.ext) = "epub"}

\* A test that sees no in-progress file.
NeverTempPresent(cur) == FALSE

\* temp_present
TempPresent(cur) == \E n \in cur : Lower(n.ext) = "crdownload"

\* max(epubs, key=lambda p: p.stat().st_mtime)
MostRecent(names) ==
    recency[CHOOSE i \in DOMAIN recency :
               /\ recency[i] \in names
               /\ \A j \in DOMAIN recency : recency[j] \in names => j <= i]

\* A test that does not look for in-progress files.
CandidatesDespiteTemp(cur, bef) == NewEpubs(cur, bef) # {}

\* if epubs and not temp_present
Candidates(cur, bef) == NewEpubs(cur, bef) # {} /\ ~TempPresent(cur)

\* The poller is left: its locals are gone.
EndPoll ==
    /\ before_set' = {}
    /\ elapsed' = 0
    /\ current' = {}
    /\ target' = NoName
    /\ size1' = 0
    /\ pollFor' = ""

\* The loop test and one listing of the sink.  On `return None` the
\* orchestrator's first call gives the document up; its second call goes on
\* without the Tibetan file.
PollSample ==
    /\ pc = "poll"
    /\ IF elapsed >= TimeoutTicks
       THEN /\ pollExit' = "none"
            /\ EndPoll
            /\ IF pollFor = "primary"
               THEN /\ FailDocument
                    /\ softFails' = softFails
               ELSE /\ pc' = "extras"
                    /\ softFails' = softFails \cup {"secondary"}
                    /\ UNCHANGED <<idx, failed, outcome, extra_language_dir, extras>>
       ELSE /\ current' = Listing
            /\ IF Candidates(Listing, before_set)
               THEN pc' = "pick" /\ elapsed' = elapsed
               ELSE pc' = "poll" /\ elapsed' = elapsed + 1
            /\ UNCHANGED <<pollExit, before_set, target, size1, pollFor, idx,
                           failed, outcome, extra_language_dir, extras, softFails>>
    /\ UNCHANGED <<driver, interrupted, quits, close_raised, calls, cookie,
                   json, unique, stale, page, sections_found, grouped,
                   regrouped, label, safe_names, success, shown, downloaded,
                   original, tib_downloaded, final_path, files, dirs, dls,
                   recency, ret, moves, copies, skipped, observed, triggered,
                   crashedAt, disturbances>>

\* No call of the poller inside a try.
CaughtNowhere(kind) == FALSE

\* Whether an exception leaving the poller is caught by its caller: the call
\* for the Tibetan file sits inside the try of step 7, the primary call
\* inside none.
Caught(kind) == kind = "tib"

\* target = max(epubs, key=lambda p: p.stat().st_mtime): stat raises
\* FileNotFoundError for a candidate that is gone, outside any try of the
\* poller.
PollPick ==
    /\ pc = "pick"
    /\ LET epubs == NewEpubs(current, before_set) IN
       IF \E n \in epubs : ~Exists(SinkPath(n))
       THEN /\ pollExit' = "raised"
            /\ IF Caught(pollFor)
               THEN /\ pc' = "extras"
                    /\ softFails' = softFails \cup {"secondary"}
                    /\ crashedAt' = crashedAt
                    /\ EndPoll
               ELSE /\ pc' = "crashed"
                    /\ crashedAt' = "poll"
                    /\ UNCHANGED <<softFails, before_set, elapsed, current,
                                   target, size1, pollFor>>
       ELSE /\ target' = MostRecent(epubs)
            /\ pc' = "size1"
            /\ UNCHANGED <<pollExit, softFails, crashedAt, before_set, elapsed,
                           current, size1, pollFor>>
    /\ UNCHANGED <<driver, interrupted, quits, close_raised, calls, cookie,
                   json, unique, stale, page, sections_found, grouped,
                   regrouped, label, safe_names, idx, success, failed,
                   extra_language_dir, shown, downloaded, original,
                   tib_downloaded, final_path, extras, files, dirs, dls,
                   recency, ret, moves, copies, skipped, outcome, observed,
                   triggered, disturbances>>

\* size1 = target.stat().st_size, then time.sleep(0.5); on FileNotFoundError
\* time.sleep(0.5) and continue.
PollSize1 ==
    /\ pc = "size1"
    /\ IF Exists(SinkPath(target))
       THEN /\ size1' = FileAt(SinkPath(target)).size
            /\ pc' = "confirm"
       ELSE /\ pc' = "poll"
            /\ size1' = size1
    /\ elapsed' = elapsed + 1
    /\ UNCHANGED <<driver, interrupted, quits, close_raised, calls, cookie,
                   json, unique, stale, page, sections_found, grouped,
                   regrouped, label, safe_names, idx, success, failed,
                   extra_language_dir, shown, downloaded, original,
                   tib_downloaded, final_path, extras, files, dirs, dls,
                   recency, before_set, current, target, pollFor, pollExit,
                   ret, moves, copies, skipped, outcome, observed, triggered,
                   softFails, crashedAt, disturbances>>

\* target.exists() and target.stat().st_size == size1
StableNow(name, size) ==
    Exists(SinkPath(name)) /\ FileAt(SinkPath(name)).size = size

\* The second look at the candidate: `return target`, or the sleep at the
\* foot of the loop.
PollConfirm ==
    /\ pc = "confirm"
    /\ IF StableNow(target, size1)
       THEN /\ pollExit' = "path"
            /\ ret' = [by |-> [url |-> Url, kind |-> pollFor],
                       content |-> FileAt(SinkPath(target)).content,
                       target |-> target, size1 |-> size1,
                       size2 |-> FileAt(SinkPath(target)).size,
                       present |-> Exists(SinkPath(target)),
                       cur |-> current, bef |-> before_set]
            /\ IF pollFor = "primary"
               THEN /\ downloaded' = SinkPath(target)
                    /\ original' = FileAt(SinkPath(target))
                    /\ observed' = observed \cup {Url}
                    /\ pc' = "place"
                    /\ tib_downloaded' = tib_downloaded
               ELSE /\ tib_downloaded' = SinkPath(target)
                    /\ pc' = "place_tib"
                    /\ UNCHANGED <<downloaded, original, observed>>
            /\ EndPoll
       ELSE /\ elapsed' = elapsed + 1
            /\ pc' = "poll"
            /\ UNCHANGED <<pollExit, ret, downloaded, original, tib_downloaded, observed,
                           before_set, current, target, size1, pollFor>>
    /\ UNCHANGED <<driver, interrupted, quits, close_raised, calls, cookie,
                   json, unique, stale, page, sections_found, grouped,
                   regrouped, label, safe_names, idx, success, failed,
                   extra_language_dir, shown, final_path, extras, files,
                   dirs, dls, recency, moves, copies, skipped, outcome,
                   triggered, softFails, crashedAt, disturbances>>

\* --------------------------------------------------------------- placement
\* Step 6, first half: the move into the primary topic's folder.  mkdir and
\* _unique_path stand outside the try, replace inside it.
PlacePrimary ==
    /\ pc = "place"
    /\ LET subfolder == Primary(Subfolders)
           target_dir == SafeSubfolder(subfolder)
           target_path == UniquePath([dir |-> target_dir, name |-> downloaded.name])
       IN
       IF subfolder = <<>>
       THEN /\ final_path' = downloaded
            /\ skipped' = [skipped EXCEPT ![Url] = @ + 1]
            /\ pc' = "lang_copy"
            /\ UNCHANGED <<files, dirs, recency, moves, crashedAt>>
       ELSE \E step \in {"mkdir_failed", "moved", "move_failed"} :
              CASE step = "mkdir_failed" ->
                     /\ pc' = "crashed"
                     /\ crashedAt' = "mkdir_primary"
                     /\ UNCHANGED <<final_path, files, dirs, recency, moves, skipped>>
                [] step = "moved" ->
                     /\ Exists(downloaded)
                     /\ dirs' = dirs \cup {target_dir}
                     /\ files' = Replaced(downloaded, target_path)
                     /\ recency' = Without(downloaded.name)
                     /\ final_path' = target_path
                     /\ moves' = [moves EXCEPT ![Url] = @ + 1]
                     /\ pc' = "lang_copy"
                     /\ UNCHANGED <<skipped, crashedAt>>
                [] OTHER ->
                     /\ dirs' = dirs \cup {target_dir}
                     /\ final_path' = downloaded
                     /\ skipped' = [skipped EXCEPT ![Url] = @ + 1]
                     /\ pc' = "lang_copy"
                     /\ UNCHANGED <<files, recency, moves, crashedAt>>
    /\ pollExit' = ""
    /\ stale' = FALSE
    /\ ret' = NoRet
    /\ UNCHANGED <<driver, interrupted, quits, close_raised, calls, cookie,
                   json, unique, page, sections_found, grouped, regrouped,
                   label, safe_names, idx, success, failed,
                   extra_language_dir, shown, downloaded, original,
                   tib_downloaded, extras, dls, before_set, elapsed, current,
                   target, size1, pollFor, copies, outcome, observed,
                   triggered, softFails, disturbances>>

\* A second fetch for every page with a language folder.
FetchesTibetanToo(dir) == dir # <<>>

\* if extra_language_dir == "English"
FetchesTibetan(dir) == dir = English

\* Step 6, second half: the copy into the language folder, all inside a try.
LanguageCopy ==
    /\ pc = "lang_copy"
    /\ LET lang_target ==
               UniquePath([dir |-> extra_language_dir, name |-> final_path.name])
       IN
       IF extra_language_dir = <<>>
       THEN UNCHANGED <<files, dirs, softFails>>
       ELSE \E step \in {"mkdir_failed", "copied", "copy_failed"} :
              CASE step = "mkdir_failed" ->
                     /\ softFails' = softFails \cup {"lang_copy"}
                     /\ UNCHANGED <<files, dirs>>
                [] step = "copied" ->
                     /\ Exists(final_path)
                     /\ dirs' = dirs \cup {extra_language_dir}
                     /\ files' = Copied(final_path, lang_target)
                     /\ softFails' = softFails
                [] OTHER ->
                     /\ dirs' = dirs \cup {extra_language_dir}
                     /\ files' = files
                     /\ softFails' = softFails \cup {"lang_copy"}
    /\ pc' = IF FetchesTibetan(extra_language_dir) THEN "secondary" ELSE "extras"
    /\ UNCHANGED <<driver, interrupted, quits, close_raised, calls, cookie,
                   json, unique, stale, page, sections_found, grouped,
                   regrouped, label, safe_names, idx, success, failed,
                   extra_language_dir, shown, downloaded, original,
                   tib_downloaded, final_path, extras, dls, recency,
                   before_set, elapsed, current, target, size1, pollFor,
                   pollExit, ret, moves, copies, skipped, outcome, observed,
                   triggered, crashedAt, disturbances>>

\* Step 7 up to the click on the Tibetan page's EPUB control, inside a try.
SecondaryFetch ==
    /\ pc = "secondary"
    /\ \E step \in {"no_tibetan_link", "raised", "no_epub_button", "clicked",
                    "click_failed"} :
          IF step = "clicked"
          THEN /\ StartDownload("tib")
               /\ softFails' = softFails
          ELSE /\ pc' = "extras"
               /\ softFails' = IF step = "no_tibetan_link" THEN softFails
                               ELSE softFails \cup {"secondary"}
               /\ UNCHANGED <<before_set, dls, triggered, pollFor, elapsed, stale>>
    /\ UNCHANGED <<driver, interrupted, quits, close_raised, calls, cookie,
                   json, unique, page, sections_found, grouped, regrouped,
                   label, safe_names, idx, success, failed,
                   extra_language_dir, shown, downloaded, original,
                   tib_downloaded, final_path, extras, files, dirs, recency,
                   current, target, size1, pollExit, ret, moves, copies,
                   skipped, outcome, observed, crashedAt, disturbances>>

\* Step 7, the move of the second download into Tibetan/, inside a try.
PlaceTibetan ==
    /\ pc = "place_tib"
    /\ LET tib_target == UniquePath([dir |-> Tibetan, name |-> tib_downloaded.name])
       IN
       \E step \in {"mkdir_failed", "moved", "move_failed"} :
          CASE step = "mkdir_failed" ->
                 /\ softFails' = softFails \cup {"secondary"}
                 /\ UNCHANGED <<files, dirs, recency>>
            [] step = "moved" ->
                 /\ Exists(tib_downloaded)
                 /\ dirs' = dirs \cup {Tibetan}
                 /\ files' = Replaced(tib_downloaded, tib_target)
                 /\ recency' = Without(tib_downloaded.name)
                 /\ softFails' = softFails
            [] OTHER ->
                 /\ dirs' = dirs \cup {Tibetan}
                 /\ softFails' = softFails \cup {"secondary"}
                 /\ UNCHANGED <<files, recency>>
    /\ tib_downloaded' = NoPath
    /\ pollExit' = ""
    /\ stale' = FALSE
    /\ ret' = NoRet
    /\ pc' = "extras"
    /\ UNCHANGED <<driver, interrupted, quits, close_raised, calls, cookie,
                   json, unique, page, sections_found, grouped, regrouped,
                   label, safe_names, idx, success, failed,
                   extra_language_dir, shown, downloaded, original,
                   final_path, extras, dls, before_set, elapsed, current,
                   target, size1, pollFor, moves, copies, skipped, outcome,
                   observed, triggered, crashedAt, disturbances>>

\* scrape_all after the orchestrator returned a path: one copy per secondary
\* topic (mkdir and _unique_path outside the try, copy2 inside), then
\* `success += 1`.
CopyExtras ==
    /\ pc = "extras"
    /\ IF extras = <<>>
       THEN /\ success' = success + 1
            /\ outcome' = [outcome EXCEPT ![Url] = "succeeded"]
            /\ idx' = idx + 1
            /\ pc' = "loop"
            /\ extra_language_dir' = <<>>
            /\ downloaded' = NoPath
            /\ original' = NoFile
            /\ final_path' = NoPath
            /\ UNCHANGED <<extras, files, dirs, copies, skipped, crashedAt>>
       ELSE LET target_dir == SafeExtra(Head(extras))
                target_path == UniquePath([dir |-> target_dir, name |-> final_path.name])
            IN
            /\ \E step \in {"mkdir_failed", "copied", "copy_failed"} :
                 CASE step = "mkdir_failed" ->
                        /\ pc' = "crashed"
                        /\ crashedAt' = "mkdir_extra"
                        /\ UNCHANGED <<extras, files, dirs, copies, skipped>>
                   [] step = "copied" ->
                        /\ Exists(final_path)
                        /\ dirs' = dirs \cup {target_dir}
                        /\ files' = Copied(final_path, target_path)
                        /\ copies' = [copies EXCEPT ![Url] = @ + 1]
                        /\ extras' = Tail(extras)
                        /\ pc' = "extras"
                        /\ UNCHANGED <<skipped, crashedAt>>
                   [] OTHER ->
                        /\ dirs' = dirs \cup {target_dir}
                        /\ extras' = Tail(extras)
                        /\ skipped' = [skipped EXCEPT ![Url] = @ + 1]
                        /\ pc' = "extras"
                        /\ UNCHANGED <<files, copies, crashedAt>>
            /\ UNCHANGED <<success, outcome, idx, extra_language_dir, downloaded,
                           original, final_path>>
    /\ pollExit' = ""
    /\ stale' = FALSE
    /\ ret' = NoRet
    /\ UNCHANGED <<driver, interrupted, quits, close_raised, calls, cookie,
                   json, unique, page, sections_found, grouped, regrouped,
                   label, safe_names, failed, shown, tib_downloaded, dls,
                   recency, before_set, elapsed, current, target, size1,
                   pollFor, moves, observed, triggered, softFails,
                   disturbances>>

\* ----------------------------------------------------------------- main
\* The steps of scrape_all and of what it calls.
Running ==
    {"start", "collect", "loop", "navigate", "negotiate", "classify", "trigger",
     "poll", "pick", "size1", "confirm", "place", "lang_copy", "secondary",
     "place_tib", "extras", "report"}

\* Every step with a handler that takes in the interrupt.
CatchesInterruptInTry(step) ==
    step \in {"negotiate", "classify", "lang_copy", "secondary", "place_tib"}

\* Whether a handler around the step catches KeyboardInterrupt: the
\* handlers of the scraper are `except Exception` and narrower, and
\* KeyboardInterrupt is no Exception.
CatchesInterrupt(step) == FALSE

\* Ctrl-C while scrape_all runs: the exception unwinds to main, whose
\* handler logs it and exits; the locals of the calls are gone.
Interrupt ==
    /\ pc \in Running
    /\ ~interrupted
    /\ interrupted' = TRUE
    /\ IF CatchesInterrupt(pc)
       THEN UNCHANGED <<pc, grouped, idx, success, failed, extra_language_dir,
                        shown, downloaded, original, tib_downloaded, final_path,
                        extras, before_set, elapsed, current, target, size1,
                        pollFor, sections_found, stale>>
       ELSE /\ pc' = "interrupted"
            /\ grouped' = <<>>
            /\ idx' = 0
            /\ success' = 0
            /\ failed' = 0
            /\ extra_language_dir' = <<>>
            /\ shown' = NoShown
            /\ downloaded' = NoPath
            /\ original' = NoFile
            /\ tib_downloaded' = NoPath
            /\ final_path' = NoPath
            /\ extras' = <<>>
            /\ sections_found' = ""
            /\ stale' = FALSE
            /\ EndPoll
    /\ UNCHANGED <<driver, quits, close_raised, calls, cookie, json, unique,
                   page, regrouped, label, safe_names, files, dirs, dls,
                   recency, pollExit, ret, moves, copies, skipped, outcome,
                   observed, triggered, softFails, crashedAt, disturbances>>

\* self.driver after a close() without its finally clause.
DriverKeptWhenQuitRaises(quitRaises) == IF quitRaises THEN "chrome" ELSE "none"

\* self.driver after close(): the finally clause clears it whether or not
\* quit raised.
DriverAfterClose(quitRaises) == "none"

\* close(): quit is called on a held driver only and may raise, which close
\* lets out; a browser that was quit downloads nothing more.
CloseDriver(quitRaises) ==
    /\ quits' = IF driver = "chrome" THEN quits + 1 ELSE quits
    /\ close_raised' = IF driver = "chrome" /\ quitRaises THEN "WebDriverException" ELSE ""
    /\ driver' = IF driver = "chrome" THEN DriverAfterClose(quitRaises) ELSE "none"
    /\ dls' = IF driver = "chrome" /\ ~quitRaises THEN {} ELSE dls

\* finally: scraper.close(), however scrape_all ended.
Close ==
    /\ pc \in {"done", "crashed", "interrupted"}
    /\ \E quitRaises \in BOOLEAN : CloseDriver(quitRaises)
    /\ pc' = "closed"
    /\ UNCHANGED <<interrupted, calls, cookie, json, unique, stale, page,
                   sections_found, grouped, regrouped, label, safe_names,
                   idx, success, failed, extra_language_dir, shown,
                   downloaded, original, tib_downloaded, final_path, extras,
                   files, dirs, recency, before_set, elapsed, current,
                   target, size1, pollFor, pollExit, ret, moves, copies,
                   skipped, outcome, observed, triggered, softFails,
                   crashedAt, disturbances>>

\* ------------------------------------------------------------- the browser
\* The file names the server gives its EPUBs.
FileBases == {<<"x">>}

\* The name of a download's in-progress file.
TempName(id) ==
    [base |-> <<"x">>, sfx |-> <<IF id.url = "abs1" THEN 1 ELSE 2,
                                 IF id.kind = "primary" THEN 1 ELSE 2>>,
     ext |-> "crdownload"]

\* The browser's own numbering of a name that is taken in the sink.
RECURSIVE ChromeFrom(_, _)
ChromeFrom(base, n) ==
    LET name == [base |-> base, sfx |-> <<n>>, ext |-> "epub"]
    IN  IF name \notin Listing THEN name ELSE ChromeFrom(base, n + 1)

ChromeName(base) ==
    LET name == [base |-> base, sfx |-> <<>>, ext |-> "epub"]
    IN  IF name \notin Listing THEN name ELSE ChromeFrom(base, 1)

\* The browser and the outside world act between two steps of the program
\* that read the sink or the folders; elsewhere their steps commute with the
\* program's.
Watching ==
    pc \in {"trigger", "poll", "pick", "size1", "confirm", "place",
            "lang_copy", "secondary", "place_tib", "extras"}

\* The steps of _wait_for_download.
PollSteps == {"poll", "pick", "size1", "confirm"}

\* Whether an in-progress file has lain in the sink all through the call of
\* the poller, once the sink holds the files fs; after the call nothing
\* changes it.
StillStale(fs) == stale /\ (pc \in PollSteps => TempInSink(fs))

\* A download shows up in the sink as an in-progress file.
DownloadAppears ==
    /\ Watching
    /\ \E d \in dls :
         /\ d.stage = "pending"
         /\ files' = files \cup {[path |-> SinkPath(TempName(d.id)),
                                  saved_as |-> TempName(d.id),
                                  content |-> d.id, size |-> 1]}
         /\ recency' = Append(recency, TempName(d.id))
         /\ dls' = (dls \ {d}) \cup {[d EXCEPT !.stage = "writing"]}
    /\ UNCHANGED <<pc, driver, interrupted, quits, close_raised, calls,
                   cookie, json, unique, stale, page, sections_found,
                   grouped, regrouped, label, safe_names, idx, success,
                   failed, extra_language_dir, shown, downloaded, original,
                   tib_downloaded, final_path, extras, dirs, before_set,
                   elapsed, current, target, size1, pollFor, pollExit, ret,
                   moves, copies, skipped, outcome, observed, triggered,
                   softFails, crashedAt, disturbances>>

\* A download completes: the in-progress file is renamed to the final name.
DownloadCompletes ==
    /\ Watching
    /\ \E d \in dls :
         /\ d.stage = "writing"
         /\ \E b \in FileBases :
              /\ files' = {f \in files : f.path # SinkPath(TempName(d.id))}
                           \cup {[path |-> SinkPath(ChromeName(b)),
                                  saved_as |-> ChromeName(b),
                                  content |-> d.id, size |-> 1]}
              /\ recency' = Append(Without(TempName(d.id)), ChromeName(b))
         /\ dls' = dls \ {d}
    /\ stale' = StillStale(files')
    /\ UNCHANGED <<pc, driver, interrupted, quits, close_raised, calls,
                   cookie, json, unique, page, sections_found, grouped,
                   regrouped, label, safe_names, idx, success, failed,
                   extra_language_dir, shown, downloaded, original,
                   tib_downloaded, final_path, extras, dirs, before_set,
                   elapsed, current, target, size1, pollFor, pollExit, ret,
                   moves, copies, skipped, outcome, observed, triggered,
                   softFails, crashedAt, disturbances>>

\* A download fails or is cancelled: the browser removes its in-progress
\* file.
DownloadAborts ==
    /\ Watching
    /\ \E d \in dls :
         /\ d.stage = "writing"
         /\ files' = {f \in files : f.path # SinkPath(TempName(d.id))}
         /\ recency' = Without(TempName(d.id))
         /\ dls' = dls \ {d}
    /\ stale' = StillStale(files')
    /\ UNCHANGED <<pc, driver, interrupted, quits, close_raised, calls,
                   cookie, json, unique, page, sections_found, grouped,
                   regrouped, label, safe_names, idx, success, failed,
                   extra_language_dir, shown, downloaded, original,
                   tib_downloaded, final_path, extras, dirs, before_set,
                   elapsed, current, target, size1, pollFor, pollExit, ret,
                   moves, copies, skipped, outcome, observed, triggered,
                   softFails, crashedAt, disturbances>>

\* An EPUB of the sink's top level disappears (the user or another program
\* removes it).
FileDisappears ==
    /\ Watching
    /\ disturbances < MaxDisturbances
    /\ disturbances' = disturbances + 1
    /\ \E f \in files :
         /\ f.path.dir = Top
         /\ f.path.name.ext = "epub"
         /\ files' = files \ {f}
         /\ recency' = Without(f.path.name)
    /\ UNCHANGED <<pc, driver, interrupted, quits, close_raised, calls,
                   cookie, json, unique, stale, page, sections_found,
                   grouped, regrouped, label, safe_names, idx, success,
                   failed, extra_language_dir, shown, downloaded, original,
                   tib_downloaded, final_path, extras, dirs, dls, before_set,
                   elapsed, current, target, size1, pollFor, pollExit, ret,
                   moves, copies, skipped, outcome, observed, triggered,
                   softFails, crashedAt>>

\* Another program appends to an EPUB lying in the sink.
FileGrows ==
    /\ Watching
    /\ disturbances < MaxDisturbances
    /\ disturbances' = disturbances + 1
    /\ \E f \in files :
         /\ f.path.dir = Top
         /\ f.path.name.ext = "epub"
         /\ files' = (files \ {f}) \cup {[f EXCEPT !.size = @ + 1]}
         /\ recency' = Append(Without(f.path.name), f.path.name)
    /\ UNCHANGED <<pc, driver, interrupted, quits, close_raised, calls,
                   cookie, json, unique, stale, page, sections_found,
                   grouped, regrouped, label, safe_names, idx, success,
                   failed, extra_language_dir, shown, downloaded, original,
                   tib_downloaded, final_path, extras, dirs, dls, before_set,
                   elapsed, current, target, size1, pollFor, pollExit, ret,
                   moves, copies, skipped, outcome, observed, triggered,
                   softFails, crashedAt>>

\* ----------------------------------------------------------- specification
Section(summary, anchors) == [summary |-> summary, anchors |-> anchors]

Site(details, bilingual) == [details |-> details, bilingual |-> bilingual]

\* The sites of the run, each with the documents whose pages carry both
\* languages: one document under two topics; the scenario of two sections
\* sharing a document; two documents under one topic, the second also under
\* a label with the same folder name; a section without summary text; two
\* labels with one folder name; topics named like the language folders.
RunSites ==
    { Site(<< Section(<<"A">>, <<"abs1">>), Section(<<"B">>, <<"rel1">>) >>, {}),
      Site(<< Section(<<"A">>, <<"abs1">>), Section(<<"B">>, <<"rel1", "abs2">>) >>, Urls),
      Site(<< Section(<<"A">>, <<"abs1", "abs2">>), Section(<<"A", ".">>, <<"abs2">>) >>,
           {"abs2"}),
      Site(<< Section(<<>>, <<"abs1">>), Section(<<"A">>, <<"abs1">>) >>, {}),
      Site(<< Section(<<"A">>, <<"abs1">>), Section(<<"A", ".">>, <<"abs1">>) >>, {}),
      Site(<< Section(English, <<"abs1">>), Section(Tibetan, <<"abs1">>) >>, {}) }

\* No path given to _unique_path yet.
NoUnique == [path |-> NoPath, returned |-> NoPath]

\* No JSON record read yet.
NoJson == [data |-> <<>>, written |-> {}]

\* No cookie banner met yet.
NoCookie == [banner |-> <<>>, within |-> "", banner_is |-> "", raised |-> FALSE]

InitState ==
    /\ stale = FALSE
    /\ driver = "chrome"
    /\ interrupted = FALSE
    /\ quits = 0
    /\ close_raised = ""
    /\ calls = <<>>
    /\ sections_found = ""
    /\ grouped = <<>>
    /\ regrouped = <<>>
    /\ idx = 0
    /\ success = 0
    /\ failed = 0
    /\ extra_language_dir = <<>>
    /\ shown = NoShown
    /\ downloaded = NoPath
    /\ original = NoFile
    /\ tib_downloaded = NoPath
    /\ final_path = NoPath
    /\ extras = <<>>
    /\ dls = {}
    /\ recency = <<>>
    /\ before_set = {}
    /\ elapsed = 0
    /\ current = {}
    /\ target = NoName
    /\ size1 = 0
    /\ pollFor = ""
    /\ pollExit = ""
    /\ ret = NoRet
    /\ moves = [u \in Urls |-> 0]
    /\ copies = [u \in Urls |-> 0]
    /\ skipped = [u \in Urls |-> 0]
    /\ outcome = [u \in Urls |-> "none"]
    /\ observed = {}
    /\ triggered = [u \in Urls |-> <<>>]
    /\ softFails = {}
    /\ crashedAt = ""
    /\ disturbances = 0

\* A run starts in an output directory of its own.
InitRest == InitState /\ files = {} /\ dirs = {}

Init ==
    /\ pc = "start"
    /\ page \in RunSites
    /\ label = <<>>
    /\ safe_names = <<>>
    /\ cookie = NoCookie
    /\ json = NoJson
    /\ unique = NoUnique
    /\ InitRest

\* ------------------------------------------- the link collector on its own
\* A landing page in document order: summaries and anchors, a summary first.
Summaries == {<<"A">>, <<" ", "A">>, <<"B">>}

DomItems ==
    {[summary |-> TRUE, text |-> t, href |-> ""] : t \in Summaries}
    \cup {[summary |-> FALSE, text |-> <<>>, href |-> h] : h \in Hrefs}

FlatPages ==
    UNION {{f \in [1..n -> DomItems] : f[1].summary} : n \in 1..MaxItems}

\* The details elements of a page given in document order.
RECURSIVE ToDetails(_, _)
ToDetails(flat, details) ==
    IF flat = <<>> THEN details
    ELSE IF Head(flat).summary
    THEN ToDetails(Tail(flat), Append(details, Section(Head(flat).text, <<>>)))
    ELSE ToDetails(Tail(flat),
             [details EXCEPT ![Len(details)].anchors = Append(@, Head(flat).href)])

InitCollect ==
    /\ pc = "c_start"
    /\ \E flat \in FlatPages : page = Site(ToDetails(flat, <<>>), {})
    /\ label = <<>>
    /\ safe_names = <<>>
    /\ cookie = NoCookie
    /\ json = NoJson
    /\ unique = NoUnique
    /\ InitRest

\* items = self._collect_text_links() on the page as it is.
CollectOnce ==
    /\ pc = "c_start"
    /\ grouped' = CollectTextLinks(page.details)
    /\ pc' = "c_once"
    /\ UNCHANGED <<driver, interrupted, quits, close_raised, calls, cookie,
                   json, unique, stale, page, sections_found, regrouped,
                   label, safe_names, idx, success, failed,
                   extra_language_dir, shown, downloaded, original,
                   tib_downloaded, final_path, extras, files, dirs, dls,
                   recency, before_set, elapsed, current, target, size1,
                   pollFor, pollExit, ret, moves, copies, skipped, outcome,
                   observed, triggered, softFails, crashedAt, disturbances>>

\* The same call again, the page unchanged.
CollectAgain ==
    /\ pc = "c_once"
    /\ regrouped' = CollectTextLinks(page.details)
    /\ pc' = "c_twice"
    /\ UNCHANGED <<driver, interrupted, quits, close_raised, calls, cookie,
                   json, unique, stale, page, sections_found, grouped, label,
                   safe_names, idx, success, failed, extra_language_dir,
                   shown, downloaded, original, tib_downloaded, final_path,
                   extras, files, dirs, dls, recency, before_set, elapsed,
                   current, target, size1, pollFor, pollExit, ret, moves,
                   copies, skipped, outcome, observed, triggered, softFails,
                   crashedAt, disturbances>>

NextCollect == CollectOnce \/ CollectAgain

SpecCollect == InitCollect /\ [][NextCollect]_vars

\* ------------------------------------------------ the sanitizer on its own
Labels == UNION {[1..n -> Chars] : n \in 0..MaxLabel}

\* The two places that sanitize a label.
Sanitizers == {"safe_subfolder", "safe_extra"}

Sanitized(by, text) ==
    IF by = "safe_subfolder" THEN SafeSubfolder(text) ELSE SafeExtra(text)

InitSanitize ==
    /\ pc = "s_start"
    /\ page = Site(<<>>, {})
    /\ label \in Labels
    /\ safe_names = <<>>
    /\ cookie = NoCookie
    /\ json = NoJson
    /\ unique = NoUnique
    /\ InitRest

\* A label is sanitized where a folder is made for it.
SanitizeLabel ==
    /\ pc = "s_start"
    /\ \E by \in Sanitizers :
          safe_names' = <<[by |-> by, name |-> Sanitized(by, label)]>>
    /\ pc' = "s_once"
    /\ UNCHANGED <<driver, interrupted, quits, close_raised, calls, cookie,
                   json, unique, stale, page, sections_found, grouped,
                   regrouped, label, idx, success, failed,
                   extra_language_dir, shown, downloaded, original,
                   tib_downloaded, final_path, extras, files, dirs, dls,
                   recency, before_set, elapsed, current, target, size1,
                   pollFor, pollExit, ret, moves, copies, skipped, outcome,
                   observed, triggered, softFails, crashedAt, disturbances>>

\* The folder name is sanitized as a label in its turn.
SanitizeName ==
    /\ pc = "s_once"
    /\ safe_names' = Append(safe_names,
           [by |-> safe_names[1].by,
            name |-> Sanitized(safe_names[1].by, safe_names[1].name)])
    /\ pc' = "s_twice"
    /\ UNCHANGED <<driver, interrupted, quits, close_raised, calls, cookie,
                   json, unique, stale, page, sections_found, grouped,
                   regrouped, label, idx, success, failed,
                   extra_language_dir, shown, downloaded, original,
                   tib_downloaded, final_path, extras, files, dirs, dls,
                   recency, before_set, elapsed, current, target, size1,
                   pollFor, pollExit, ret, moves, copies, skipped, outcome,
                   observed, triggered, softFails, crashedAt, disturbances>>

NextSanitize == SanitizeLabel \/ SanitizeName

SpecSanitize == InitSanitize /\ [][NextSanitize]_vars

\* ----------------------------------------------- _unique_path on its own
\* The folder the paths are in.
UniqueDir == <<"A">>

\* " (n)" zero, one or two times before the extension.
Suffixes ==
    {<<>>} \cup {<<n>> : n \in 1..MaxSuffix}
           \cup {<<n, m>> : n \in 1..MaxSuffix, m \in 1..MaxSuffix}

UniqueNames == {[base |-> <<"x">>, sfx |-> s, ext |-> "epub"] : s \in Suffixes}

\* A file of the folder under one of the names.
UniqueFile(name) ==
    [path |-> [dir |-> UniqueDir, name |-> name], saved_as |-> name,
     content |-> NoId, size |-> 1]

InitUnique ==
    /\ pc = "u_start"
    /\ page = Site(<<>>, {})
    /\ label = <<>>
    /\ safe_names = <<>>
    /\ cookie = NoCookie
    /\ json = NoJson
    /\ \E names \in SUBSET UniqueNames : files = {UniqueFile(n) : n \in names}
    /\ dirs = {UniqueDir}
    /\ \E name \in UniqueNames :
          unique = [path |-> [dir |-> UniqueDir, name |-> name], returned |-> NoPath]
    /\ InitState

\* final_path = self._unique_path(path)
CallUniquePath ==
    /\ pc = "u_start"
    /\ unique' = [unique EXCEPT !.returned = UniquePath(unique.path)]
    /\ pc' = "u_done"
    /\ UNCHANGED <<driver, interrupted, quits, close_raised, calls, cookie,
                   json, stale, page, sections_found, grouped, regrouped,
                   label, safe_names, idx, success, failed,
                   extra_language_dir, shown, downloaded, original,
                   tib_downloaded, final_path, extras, files, dirs, dls,
                   recency, before_set, elapsed, current, target, size1,
                   pollFor, pollExit, ret, moves, copies, skipped, outcome,
                   observed, triggered, softFails, crashedAt, disturbances>>

NextUnique == CallUniquePath

SpecUnique == InitUnique /\ [][NextUnique]_vars

\* --------------------------------------------- json_to_folder on its own
\* "\n"
NL == "nl"

\* The values a field of a record holds: the empty string and a text.
Values(key) ==
    IF key = "bo" THEN {<<>>, <<"a">>}
    ELSE IF key = "en" THEN {<<>>, <<"b">>}
    ELSE {<<"x">>}

Keys == {"bo", "en", "en-trans"}

\* The entries of data['text']: each has some of the fields.
Verses ==
    UNION {[ks -> {<<"a">>, <<"b">>, <<"x">>, <<>>}] : ks \in SUBSET Keys}

VersesOfRecord == {v \in Verses : \A k \in DOMAIN v : v[k] \in Values(k)}

Texts == UNION {[1..n -> VersesOfRecord] : n \in 0..MaxVerses}

Records ==
    [title : [bo : {<<"T">>, <<"T", "i">>}, en : {<<"E">>}], text : Texts]

\* A lookup that takes the translation for a missing English.
GetOrTranslation(verse, key) ==
    IF key \in DOMAIN verse THEN verse[key]
    ELSE IF key = "en" /\ "en-trans" \in DOMAIN verse THEN verse["en-trans"]
    ELSE <<>>

\* verse.get(key, "")
Get(verse, key) == IF key \in DOMAIN verse THEN verse[key] ELSE <<>>

\* The loop of get_bo_text and get_en_text: the text so far grows by the
\* value and a newline for every verse whose value is not empty.
RECURSIVE GetText(_, _, _)
GetText(verses, key, text) ==
    IF verses = <<>> THEN text
    ELSE GetText(Tail(verses), key,
                 IF Get(Head(verses), key) # <<>>
                 THEN text \o Get(Head(verses), key) \o <<NL>>
                 ELSE text)

get_bo_text(data, title) == GetText(data.text, "bo", title \o <<NL>>)

get_en_text(data, title) == GetText(data.text, "en", title \o <<NL>>)

\* create_folder: bo.txt and en.txt in the folder output_dir / bo_title.
create_folder(bo_title, bo_text, en_text) ==
    {[folder |-> bo_title, name |-> "bo.txt", text |-> bo_text],
     [folder |-> bo_title, name |-> "en.txt", text |-> en_text]}

InitJson ==
    /\ pc = "j_start"
    /\ page = Site(<<>>, {})
    /\ label = <<>>
    /\ safe_names = <<>>
    /\ cookie = NoCookie
    /\ \E data \in Records : json = [data |-> data, written |-> {}]
    /\ unique = NoUnique
    /\ InitRest

json_to_folder ==
    /\ pc = "j_start"
    /\ json' = [json EXCEPT !.written =
                  create_folder(json.data.title.bo,
                                get_bo_text(json.data, json.data.title.bo),
                                get_en_text(json.data, json.data.title.en))]
    /\ pc' = "j_done"
    /\ UNCHANGED <<driver, interrupted, quits, close_raised, calls, cookie,
                   unique, stale, page, sections_found, grouped, regrouped,
                   label, safe_names, idx, success, failed,
                   extra_language_dir, shown, downloaded, original,
                   tib_downloaded, final_path, extras, files, dirs, dls,
                   recency, before_set, elapsed, current, target, size1,
                   pollFor, pollExit, ret, moves, copies, skipped, outcome,
                   observed, triggered, softFails, crashedAt, disturbances>>

NextJson == json_to_folder

SpecJson == InitJson /\ [][NextJson]_vars

\* ------------------------------------------- the cookie banner on its own
\* How each webdriver call of _dismiss_cookie_banner can go for a banner.
BannerCases ==
    [find : {"found", "raises"},
     displayed : {"yes", "no", "raises"},
     accept : {"found", "raises"},
     click : {"ok", "raises"},
     js_click : {"ok", "raises"},
     hide : {"ok", "raises"}]

\* The steps that call _dismiss_cookie_banner.
BannerSteps == {"expand", "navigate"}

\* Handlers that let the exception of the last fallback out.
SwallowedButHide(at) == at # "hide"

\* Whether an exception of the call is caught with nothing left to try:
\* `except Exception: return` around the lookup, `except Exception: pass`
\* around everything after it.
Swallowed(at) == TRUE

\* _dismiss_cookie_banner: what becomes of the banner and whether the
\* function raises.
DismissCookieBanner(b) ==
    IF b.find = "raises"
    THEN [banner_is |-> "absent", raised |-> ~Swallowed("find")]
    ELSE IF b.displayed = "raises"
    THEN [banner_is |-> "unknown", raised |-> ~Swallowed("displayed")]
    ELSE IF b.displayed = "no"
    THEN [banner_is |-> "not_displayed", raised |-> FALSE]
    ELSE IF b.accept = "found" /\ b.click = "ok"
    THEN [banner_is |-> "accepted", raised |-> FALSE]
    ELSE IF b.accept = "found" /\ b.js_click = "ok"
    THEN [banner_is |-> "accepted_by_script", raised |-> FALSE]
    ELSE IF b.hide = "ok"
    THEN [banner_is |-> "hidden", raised |-> FALSE]
    ELSE [banner_is |-> "displayed", raised |-> ~Swallowed("hide")]

InitCookie ==
    /\ pc = "c_start"
    /\ page = Site(<<>>, {})
    /\ label = <<>>
    /\ safe_names = <<>>
    /\ \E b \in BannerCases, s \in BannerSteps :
          cookie = [banner |-> b, within |-> s, banner_is |-> "", raised |-> FALSE]
    /\ json = NoJson
    /\ unique = NoUnique
    /\ InitRest

\* The step calls _dismiss_cookie_banner right after driver.get and goes on
\* when the call returns.
Dismiss ==
    /\ pc = "c_start"
    /\ cookie' = [cookie EXCEPT
                    !.banner_is = DismissCookieBanner(cookie.banner).banner_is,
                    !.raised = DismissCookieBanner(cookie.banner).raised]
    /\ pc' = IF DismissCookieBanner(cookie.banner).raised
             THEN "c_raised" ELSE "c_continues"
    /\ UNCHANGED <<driver, interrupted, quits, close_raised, calls, json,
                   unique, stale, page, sections_found, grouped, regrouped,
                   label, safe_names, idx, success, failed,
                   extra_language_dir, shown, downloaded, original,
                   tib_downloaded, final_path, extras, files, dirs, dls,
                   recency, before_set, elapsed, current, target, size1,
                   pollFor, pollExit, ret, moves, copies, skipped, outcome,
                   observed, triggered, softFails, crashedAt, disturbances>>

NextCookie == Dismiss

SpecCookie == InitCookie /\ [][NextCookie]_vars

\* ---------------------------------------------- the session on its own
\* The methods that drive the browser.
Methods ==
    {"scrape_all", "_expand_all_sections", "_collect_text_links",
     "_dismiss_cookie_banner", "_download_epub_from_text_page"}

\* What a method lets out when self.driver is None: the first thing each
\* does is a call on self.driver, which raises AttributeError; only
\* _dismiss_cookie_banner makes that call inside try/except Exception and
\* returns.
NotStarted(method) ==
    IF method = "_dismiss_cookie_banner" THEN "" ELSE "AttributeError"

InitSession ==
    /\ pc = "idle"
    /\ page = Site(<<>>, {})
    /\ label = <<>>
    /\ safe_names = <<>>
    /\ cookie = NoCookie
    /\ json = NoJson
    /\ unique = NoUnique
    /\ InitRest

\* close() called on the scraper, any number of times.
CallClose ==
    /\ pc = "idle"
    /\ Len(calls) < MaxCalls
    /\ \E quitRaises \in BOOLEAN :
          /\ CloseDriver(quitRaises)
          /\ calls' = Append(calls,
                [method |-> "close",
                 raised |-> IF driver = "chrome" /\ quitRaises
                            THEN "WebDriverException" ELSE ""])
    /\ UNCHANGED <<pc, interrupted, cookie, json, unique, stale, page,
                   sections_found, grouped, regrouped, label, safe_names,
                   idx, success, failed, extra_language_dir, shown,
                   downloaded, original, tib_downloaded, final_path, extras,
                   files, dirs, recency, before_set, elapsed, current,
                   target, size1, pollFor, pollExit, ret, moves, copies,
                   skipped, outcome, observed, triggered, softFails,
                   crashedAt, disturbances>>

\* A method called on the scraper after close().
CallNotStarted ==
    /\ pc = "idle"
    /\ driver = "none"
    /\ Len(calls) < MaxCalls
    /\ \E method \in Methods :
          calls' = Append(calls, [method |-> method, raised |-> NotStarted(method)])
    /\ UNCHANGED <<pc, driver, interrupted, quits, close_raised, cookie,
                   json, unique, stale, page, sections_found, grouped,
                   regrouped, label, safe_names, idx, success, failed,
                   extra_language_dir, shown, downloaded, original,
                   tib_downloaded, final_path, extras, files, dirs, dls,
                   recency, before_set, elapsed, current, target, size1,
                   pollFor, pollExit, ret, moves, copies, skipped, outcome,
                   observed, triggered, softFails, crashedAt, disturbances>>

NextSession == CallClose \/ CallNotStarted

SpecSession == InitSession /\ [][NextSession]_vars

Next ==
    \/ ExpandAllSections
    \/ CollectLinks
    \/ LoopNext
    \/ Report
    \/ Navigate
    \/ Negotiate
    \/ ClassifyContent
    \/ TriggerDownload
    \/ PollSample
    \/ PollPick
    \/ PollSize1
    \/ PollConfirm
    \/ PlacePrimary
    \/ LanguageCopy
    \/ SecondaryFetch
    \/ PlaceTibetan
    \/ CopyExtras
    \/ Interrupt
    \/ Close
    \/ DownloadAppears
    \/ DownloadCompletes
    \/ DownloadAborts
    \/ FileDisappears
    \/ FileGrows

Spec == Init /\ [][Next]_vars


\* ------------------------------------------------------------- properties
\* The anchors with an href of a page in document order, each with the
\* stripped label of its section and its absolute URL.
SectionLinks(d) ==
    LET hs == SelectSeq(d.anchors, LAMBDA h : h # "")
    IN  [k \in 1..Len(hs) |-> [label |-> Strip(d.summary), url |-> UrlJoin(hs[k])]]

RECURSIVE Occurrences(_)
Occurrences(details) ==
    IF details = <<>> THEN <<>>
    ELSE SectionLinks(Head(details)) \o Occurrences(Tail(details))

\* `result` lists the URLs of `details` once each in the order of their
\* first occurrence, each with the labels it occurs under, once each in the
\* order of their first occurrence with that URL.
ListsEachOnce(details, result) ==
    LET occ == Occurrences(details)
        First(u) == CHOOSE k \in DOMAIN occ :
                       /\ occ[k].url = u
                       /\ \A j \in 1..(k - 1) : occ[j].url # u
        FirstUnder(u, l) == CHOOSE k \in DOMAIN occ :
                       /\ occ[k] = [label |-> l, url |-> u]
                       /\ \A j \in 1..(k - 1) : occ[j] # occ[k]
    IN  /\ {result[i].url : i \in DOMAIN result} = {occ[k].url : k \in DOMAIN occ}
        /\ \A i, j \in DOMAIN result :
              i < j => First(result[i].url) < First(result[j].url)
        /\ \A i \in DOMAIN result :
              LET u == result[i].url
                  t == result[i].topics
              IN  /\ {t[a] : a \in DOMAIN t}
                       = {occ[k].label : k \in {m \in DOMAIN occ : occ[m].url = u}}
                  /\ \A a, b \in DOMAIN t :
                        a < b => FirstUnder(u, t[a]) < FirstUnder(u, t[b])

\* C1: the collector returns every distinct absolute URL of the page exactly
\* once, in the order of first occurrence, each with the stripped labels of
\* the sections it occurs in, in the order of first occurrence and without
\* repetition; a second run on the unchanged page returns the same list.
C1_LinksCollectedOnce ==
    /\ pc \in {"c_once", "c_twice"} => ListsEachOnce(page.details, grouped)
    /\ pc = "c_twice" => regrouped = grouped

\* A page that links a document twice from one section and once more from
\* another.
C1_Witness ==
    /\ pc = "c_twice"
    /\ Len(grouped) = 1
    /\ Len(grouped[1].topics) = 2
    /\ Len(Occurrences(page.details)) = 3

Topics(u) == grouped[Position(u)].topics

\* The loop over items is past the document.
Done(u) == u \in Collected /\ idx > Position(u)

HasFileIn(u, dir) ==
    \E f \in files : f.path.dir = dir /\ f.content = [url |-> u, kind |-> "primary"]

\* C2 (as the code has it): for a document with k >= 2 topics counted as
\* succeeded, one move and k - 1 copies were due; each was made, or failed
\* and was passed over (the move also when the first label is empty), so
\* that at most one move and at most k - 1 copies were made, and exactly
\* these when nothing was passed over; a move that was made took the file
\* into the folder of the first topic.
C2_PlacementsAccounted ==
    \A u \in Urls :
        (Done(u) /\ outcome[u] = "succeeded" /\ Len(Topics(u)) >= 2) =>
            /\ moves[u] <= 1
            /\ copies[u] <= Len(Topics(u)) - 1
            /\ moves[u] + copies[u] + skipped[u] = Len(Topics(u))
            /\ moves[u] = 1 =>
                   \E f \in files : f.path.dir = SafeSubfolder(Topics(u)[1])

C2_Witness ==
    \E u \in Urls :
        /\ Done(u) /\ outcome[u] = "succeeded"
        /\ Len(Topics(u)) = 2
        /\ moves[u] = 1 /\ copies[u] = 1
        /\ HasFileIn(u, SafeSubfolder(Topics(u)[1]))
        /\ HasFileIn(u, SafeExtra(Topics(u)[2]))

\* C2 as stated: every document with k >= 2 topics counted as succeeded has
\* had exactly one move and exactly k - 1 copies.
C2_ExactlyOneMove ==
    \A u \in Urls :
        (Done(u) /\ outcome[u] = "succeeded" /\ Len(Topics(u)) >= 2) =>
            moves[u] = 1 /\ copies[u] = Len(Topics(u)) - 1

\* C3: no step removes or changes a file lying in a topic or language
\* folder, and no two files share a path: a download whose name is taken in
\* its folder ends at a path of its own.
C3_NeverOverwrites ==
    [][/\ \A f \in files : f.path.dir # Top => f \in files'
       /\ \A f, g \in files' : f.path = g.path => f = g]_vars

\* Two documents' downloads of the same file name lie side by side in one
\* topic folder.
C3_Witness ==
    \E f, g \in files :
        /\ f.path.dir = g.path.dir /\ f.path.dir # Top
        /\ f.content.url = "abs1" /\ g.content.url = "abs2"
        /\ f.path.name.base = g.path.name.base
        /\ f.path.name.sfx = <<>> /\ g.path.name.sfx = <<1>>

\* C4 as stated: no failure of one document's navigation or completion wait
\* ends the run.
C4_RunSurvivesDocumentFailure == crashedAt \notin {"navigate", "poll"}

\* C5: failures of steps 2, 3 and 7 never fail the document or the run: a
\* document whose primary download was seen complete is counted as
\* succeeded once the loop is past it and never as failed, an exception
\* leaving the poller ends the run only from the primary call, and a failed
\* step 3 leaves no language folder chosen.
C5_BestEffortSteps ==
    /\ \A u \in observed :
          /\ outcome[u] # "failed"
          /\ Done(u) => outcome[u] = "succeeded"
    /\ crashedAt = "poll" => pollFor = "primary"
    /\ "classify" \in softFails => extra_language_dir = <<>>

\* A document counted as succeeded whose steps 2 and 7 both failed.
C5_Witness ==
    /\ pc = "loop"
    /\ {"negotiate", "secondary"} \subseteq softFails
    /\ \E u \in observed : Done(u) /\ outcome[u] = "succeeded"

\* C6: once the loop over the collected documents has begun, the two
\* counters add up to the number of documents it is past, each counted under
\* its one outcome, and to the number of collected documents when the run
\* reports.
C6_CountersAddUp ==
    idx >= 1 =>
        /\ success + failed = idx - 1
        /\ success = Cardinality({u \in Urls : outcome[u] = "succeeded"})
        /\ failed = Cardinality({u \in Urls : outcome[u] = "failed"})
        /\ pc \in {"report", "done"} => success + failed = Len(grouped)

\* A run of two documents that ends with one of each outcome.
C6_Witness == pc = "done" /\ success = 1 /\ failed = 1

\* C8: the path the poller returns was not in the snapshot, ends in .epub,
\* was listed while no in-progress file was, and was there with an
\* unchanged size at the second look.
C8_ReturnedFileIsStable ==
    pollExit = "path" =>
        /\ ret.target \in ret.cur \ ret.bef
        /\ Lower(ret.target.ext) = "epub"
        /\ \A n \in ret.cur : Lower(n.ext) # "crdownload"
        /\ ret.present
        /\ ret.size2 = ret.size1

\* A return from a sink that held an EPUB before the click.
C8_Witness == pollExit = "path" /\ ret.bef # {} /\ ret.size1 > 1

\* C9 as stated: the poller ends by returning a path or the absent value.
C9_PollerReturns == pollExit \in {"", "path", "none"}

\* C10 as stated: the file returned to a document is the download of that
\* document.
C10_OwnDownload == pollExit = "path" => ret.content.url = ret.by.url

C12_ClassificationRule ==
    shown.looked =>
        /\ extra_language_dir = English <=>
               /\ ~shown.is_tibetan_page
               /\ ~shown.has_bo_class
               /\ ~shown.tibetan_script_present
        /\ extra_language_dir = Tibetan <=>
               /\ shown.is_tibetan_page
               /\ ~shown.has_en_class
               /\ ~shown.has_en_trans_class
        /\ extra_language_dir \in {English, Tibetan, <<>>}

\* An English page without tagged Tibetan whose text holds Tibetan script.
C12_Witness ==
    /\ shown.looked
    /\ ~shown.is_tibetan_page /\ ~shown.has_bo_class
    /\ shown.tibetan_script_present
    /\ extra_language_dir = <<>>

\* C13 (as the code has it): the step after the primary placement makes no
\* file when no language folder was chosen; when one was chosen it changes
\* no file and makes at most one, in the top-level folder of exactly that
\* name and with the content of the placed file, and it makes one unless
\* creating the folder or copying raised.
C13_LanguageCopy ==
    [][(pc = "lang_copy" /\ pc' \notin {pc, "interrupted"}) =>
         /\ files \subseteq files'
         /\ Cardinality(files' \ files) <= 1
         /\ extra_language_dir = <<>> => files' = files
         /\ \A f \in files' \ files :
               /\ f.path.dir = extra_language_dir
               /\ extra_language_dir \in {English, Tibetan}
               /\ f.content = FileAt(final_path).content
               /\ f.path.name.base = final_path.name.base
         /\ (extra_language_dir # <<>> /\ "lang_copy" \notin softFails') =>
               files' # files]_vars

\* A copy in English/ of a file placed in a topic folder.
C13_Witness ==
    /\ pc \in {"secondary", "extras"}
    /\ extra_language_dir = English
    /\ final_path.dir \notin {Top, English}
    /\ \E f \in files :
          f.path.dir = English /\ f.content = [url |-> Url, kind |-> "primary"]

\* C13 as stated: whenever a language folder was chosen and the download
\* completed, the step makes a copy in that folder.
C13_AlwaysCopied ==
    [][(pc = "lang_copy" /\ pc' \notin {pc, "interrupted"} /\ extra_language_dir # <<>>) =>
          \E f \in files' \ files : f.path.dir = extra_language_dir]_vars

\* C14 as stated, for runs in which nothing from outside touches the sink:
\* the file of a second fetch lies nowhere but in the sink or in Tibetan/.
C14_TibetanFileStaysOut ==
    disturbances = 0 =>
        \A f \in files : f.content.kind = "tib" => f.path.dir \in {Top, Tibetan}

\* C15 as stated: no failure while placing a copy into a secondary topic
\* folder ends the run.
C15_SecondaryFailureTolerated == crashedAt # "mkdir_extra"

\* C16 as stated: sanitizing a sanitized label gives the same name.
C16_SanitizeIdempotent ==
    pc = "s_twice" => safe_names[2].name = safe_names[1].name

\* The files a step of the scraper puts into folders.
Placed == {f \in files' \ files : f.path.dir # Top}

TopicFolders ==
    UNION {{SafeSubfolder(grouped[i].topics[k]) : k \in DOMAIN grouped[i].topics} :
              i \in DOMAIN grouped}

\* C18 as stated: a file in a topic folder has the name its download was
\* saved under, or that name with one " (n)" before the extension.
C18_OneSuffixAtMost ==
    \A f \in files :
        f.path.dir \in TopicFolders \ {Top} =>
            /\ f.path.name.base = f.saved_as.base
            /\ f.path.name.ext = f.saved_as.ext
            /\ \/ f.path.name.sfx = f.saved_as.sfx
               \/ \E n \in 1..(Cardinality(files) + 1) :
                     f.path.name.sfx = Append(f.saved_as.sfx, n)

\* C19 as stated: when the wait for the sections container ran out, the
\* collection yields no link, whatever the page holds by then.
C19_NoContainerNoLinks ==
    [][(pc = "collect" /\ sections_found = "no") => grouped' = <<>>]_vars

\* C20: the step that takes an interrupt starts no download and leaves the
\* files in the folders as they are; after it the scraper takes no step but
\* the release of the browser session, which is then possible, changes no
\* file in a folder either and leaves no session behind.
C20_InterruptStopsRun ==
    /\ [](interrupted /\ pc # "closed" => ENABLED Close)
    /\ [][/\ interrupted' =>
               /\ \A f \in files : f.path.dir # Top => f \in files'
               /\ {f \in files' : f.path.dir # Top} \subseteq files
               /\ triggered' = triggered
               /\ pc' \in {"interrupted", "closed"}
          /\ interrupted =>
               pc = "interrupted" /\ pc' = "closed" /\ driver' = "none"]_vars

\* The session released after an interrupt that came while a second
\* document was under way and the first one's file was in its folder.
C20_Witness ==
    /\ interrupted /\ pc = "closed" /\ driver = "none"
    /\ outcome["abs1"] = "succeeded"
    /\ Len(triggered["abs2"]) = 1
    /\ \E f \in files : f.path.dir # Top

\* C21: once close() has been called no driver is held and quit has been
\* called at most once, however many calls follow; a close() on a scraper
\* that holds no driver lets no exception out and changes nothing.
C21_CloseIdempotent ==
    /\ [](calls # <<>> => driver = "none" /\ quits <= 1)
    /\ [][(Len(calls') > Len(calls) /\ calls'[Len(calls')].method = "close"
            /\ driver = "none") =>
              /\ calls'[Len(calls')].raised = ""
              /\ driver' = "none"
              /\ quits' = quits
              /\ dls' = dls
              /\ files' = files]_vars

\* Three calls of close(), the first of which quit the browser with an
\* exception.
C21_Witness ==
    /\ Len(calls) = 3
    /\ \A i \in 1..3 : calls[i].method = "close"
    /\ calls[1].raised = "WebDriverException"
    /\ quits = 1
    /\ driver = "none"

\* C23: every method that drives the browser, called while no driver is
\* held, lets out a BrowserError.
C23_BrowserErrorWhenNotStarted ==
    \A i \in DOMAIN calls :
        calls[i].method # "close" => calls[i].raised = "BrowserError"

\* C22: whatever the banner is like and whichever call on it raises,
\* _dismiss_cookie_banner returns without raising and the step that called
\* it goes on.
C22_CookieDismissalNeverRaises ==
    pc \in {"c_continues", "c_raised"} => pc = "c_continues" /\ ~cookie.raised

\* A document's page whose banner is displayed, has no Accept control and
\* could not be hidden by script: the banner stays and the step goes on.
C22_Witness ==
    /\ pc = "c_continues"
    /\ cookie.within = "navigate"
    /\ cookie.banner.displayed = "yes"
    /\ cookie.banner.accept = "raises"
    /\ cookie.banner.hide = "raises"
    /\ cookie.banner_is = "displayed"

\* The non-empty values of a field, in the order of the entries.
ValuesOf(data, key) ==
    LET has == SelectSeq(data.text, LAMBDA v : key \in DOMAIN v /\ v[key] # <<>>)
    IN  [i \in DOMAIN has |-> has[i][key]]

\* The text split at its newlines, each of which ends a line.
RECURSIVE LinesOf(_, _)
LinesOf(text, line) ==
    IF text = <<>> THEN (IF line = <<>> THEN <<>> ELSE <<line>>)
    ELSE IF Head(text) = NL THEN <<line>> \o LinesOf(Tail(text), <<>>)
    ELSE LinesOf(Tail(text), Append(line, Head(text)))

\* C24: json_to_folder writes exactly bo.txt and en.txt, in the folder named
\* by title.bo; each ends with a newline when it has lines, and its lines are
\* the title of its language followed by the non-empty values of its field in
\* the order of the entries.
C24_JsonToFolder ==
    pc = "j_done" =>
      /\ {[folder |-> f.folder, name |-> f.name] : f \in json.written}
            = {[folder |-> json.data.title.bo, name |-> n] : n \in {"bo.txt", "en.txt"}}
      /\ Cardinality(json.written) = 2
      /\ \A f \in json.written :
            LET key == IF f.name = "bo.txt" THEN "bo" ELSE "en"
            IN  /\ f.text[Len(f.text)] = NL
                /\ LinesOf(f.text, <<>>)
                     = <<json.data.title[key]>> \o ValuesOf(json.data, key)

\* The record of the scenario, with a translation in its second entry:
\* {"title": {"bo": "T", "en": "E"},
\*  "text": [{"bo": "a", "en": "b"}, {"bo": "a", "en-trans": "x"}]}.
C24_Witness ==
    /\ pc = "j_done"
    /\ json.data.title.bo = <<"T">>
    /\ Len(json.data.text) = 2
    /\ DOMAIN json.data.text[1] = {"bo", "en"}
    /\ DOMAIN json.data.text[2] = {"bo", "en-trans"}
    /\ [folder |-> <<"T">>, name |-> "bo.txt", text |-> <<"T", NL, "a", NL, "a", NL>>]
          \in json.written
    /\ [folder |-> <<"T">>, name |-> "en.txt", text |-> <<"E", NL, "b", NL>>]
          \in json.written

\* '<stem> (n)<ext>' for the path given to _unique_path.
CandidateOf(path, n) == [path EXCEPT !.name.sfx = Append(@, n)]

\* C25: _unique_path returns a path that does not exist; it is the given
\* path when that does not exist, and otherwise '<stem> (n)<ext>' for the
\* smallest n >= 1 whose path does not exist.
C25_UniquePathMinimal ==
    pc = "u_done" =>
      /\ ~Exists(unique.returned)
      /\ ~Exists(unique.path) => unique.returned = unique.path
      /\ Exists(unique.path) =>
            \E n \in 1..(Cardinality(files) + 1) :
               /\ unique.returned = CandidateOf(unique.path, n)
               /\ \A k \in 1..(n - 1) : Exists(CandidateOf(unique.path, k))

\* "x (1).epub", "x (1) (1).epub" and "x (2).epub" exist: "x (1) (2).epub" is
\* returned for "x (1).epub".
C25_Witness ==
    /\ pc = "u_done"
    /\ unique.path.name.sfx = <<1>>
    /\ Exists(unique.path)
    /\ Exists(CandidateOf(unique.path, 1))
    /\ Exists([unique.path EXCEPT !.name.sfx = <<2>>])
    /\ unique.returned.name.sfx = <<1, 2>>

\* C26 as stated: a label leads to the same folder as a document's first
\* topic and as a later one: the step that takes the download to its first
\* topic leaves the folder in place that the label has as a later topic.
C26_SameFolderFirstOrLater ==
    [][(pc = "place" /\ pc' = "lang_copy") =>
          SafeExtra(Primary(Subfolders)) \in dirs']_vars

\* C27: no folder of the output directory has a "." in its name; what the
\* poller returns is no such folder and no file that lies in a topic or
\* language folder: it has the content of none of them, over all the
\* documents of a run.
C27_PlacedFilesNotPickedAgain ==
    /\ \A d \in dirs : \A i \in DOMAIN d : d[i] # "."
    /\ pollExit = "path" =>
          /\ \A d \in dirs : ~(ret.target.base = d /\ ret.target.ext = "")
          /\ \A f \in files : f.path.dir # Top => f.content # ret.content

\* A return for the second document while the first one's file lies under
\* the same name in a topic folder and in a language folder.
C27_Witness ==
    /\ pollExit = "path"
    /\ idx = 2
    /\ \E f, g \in files :
          /\ f.path.dir \notin {Top, English, Tibetan}
          /\ g.path.dir \in {English, Tibetan}
          /\ f.path.name = ret.target
          /\ g.path.name = ret.target

\* C28: while an in-progress file has lain in the top level of the sink all
\* through a call of the poller, the call finds no candidate and returns
\* nothing but the absent value, which it does when its time is up; the
\* document whose primary download was waited for is then counted as failed
\* and not as succeeded.
C28_StaleTempBlocks ==
    [][/\ (stale /\ pc \in PollSteps) => pc = "poll"
       /\ pollExit' = "path" => ~stale'
       /\ (stale /\ pc = "poll" /\ pc' \notin {"poll", "interrupted"}) =>
             /\ elapsed >= TimeoutTicks
             /\ pollExit' = "none"
             /\ pollFor = "primary" =>
                   /\ outcome'[Url] = "failed"
                   /\ failed' = failed + 1
                   /\ success' = success]_vars

\* The second document counted as failed with its own EPUB complete in the
\* sink, behind the in-progress file that the first document's download
\* left there before the snapshot was taken.
C28_Witness ==
    /\ stale
    /\ pollExit = "none"
    /\ outcome["abs1"] = "failed"
    /\ outcome["abs2"] = "failed"
    /\ \E f, g \in files :
          /\ f.path.dir = Top /\ g.path.dir = Top
          /\ f.content = [url |-> "abs1", kind |-> "primary"]
          /\ f.path.name.ext = "crdownload"
          /\ g.content = [url |-> "abs2", kind |-> "primary"]
          /\ g.path.name.ext = "epub"
=============================================================================
